---- MODULE Spec2Model ----
(***************************************************************************)
(* A model of the python-data-analysis example repository:                 *)
(*   src/src/utils.py             load_data, explore_data,                 *)
(*                                plot_distributions, save_plot,           *)
(*                                create_summary_report                    *)
(*   src/src/example_analysis.py  create_sample_data, main                 *)
(*                                                                         *)
(* Three specifications are given.  Spec calls the functions of utils.py   *)
(* on a table df; SpecGen calls create_sample_data on every draw; SpecMain *)
(* runs main() of example_analysis.py statement by statement.              *)
(*                                                                         *)
(* Text is ASCII here: the Japanese column names and captions of the       *)
(* source are written by their English meaning.                            *)
(***************************************************************************)
EXTENDS Integers, Sequences, FiniteSets, TLC

VARIABLES
    df,           \* the pandas DataFrame handed to the functions of utils.py
    file,         \* the report file on disk: [exists, lines]
    dirs,         \* the directories that exist under the working directory
    op,           \* the name of the last function called
    args,         \* the arguments of that call
    stdout,       \* what that call printed, one entry per print()
    exc,          \* the exception that call raised, or NoExc
    ret,          \* the value that call returned
    parserCalls,  \* the pandas readers that call invoked
    fig,          \* the matplotlib figure that call laid out
    pc,           \* main(): the statement reached
    data,         \* main(): the values of the generated table, row by row
    trace         \* main(): the stages called so far, with the table each received

vars == <<df, file, dirs, op, args, stdout, exc, ret, parserCalls, fig, pc, data, trace>>

----------------------------------------------------------------------------
(* Bounds of the model *)

MaxCols == 3          \* columns of an enumerated table
MaxRows == 1          \* rows of an enumerated table
MaxPlotCols == 7      \* columns of the widest all-numeric table

----------------------------------------------------------------------------
(* Tables.  The code reads of a DataFrame only its shape, its column      *)
(* names and dtypes and the per-column count of nulls, and hands the      *)
(* values themselves to pandas; a column is modelled by name, dtype and   *)
(* number of null values.                                                 *)

ColumnNames == <<"c1", "c2", "c3", "c4", "c5", "c6", "c7", "c8", "c9", "c10">>

DTypes == {"float64", "object"}

Column(i, dtype, missing) == [name |-> ColumnNames[i], dtype |-> dtype, missing |-> missing]

ColumnSeqs(k, n) ==
    { [i \in 1..k |-> Column(i, c[i].dtype, c[i].missing)] :
        c \in [1..k -> [dtype : DTypes, missing : 0..n]] }

DataFrame(n, columns) == [nrows |-> n, columns |-> columns]

\* every table of at most MaxCols columns and MaxRows rows
SmallTables ==
    UNION { { DataFrame(n, c) : c \in ColumnSeqs(k, n) } : k \in 0..MaxCols, n \in 0..MaxRows }

\* all-numeric tables without nulls, up to MaxPlotCols columns wide
WideTables ==
    { DataFrame(1, [i \in 1..k |-> Column(i, "float64", 0)]) : k \in 0..MaxPlotCols }

\* ten rows, three columns, null counts (0, 2, 0)
ExampleTable ==
    DataFrame(10, <<Column(1, "float64", 0), Column(2, "float64", 2), Column(3, "object", 0)>>)

Tables == SmallTables \cup WideTables \cup {ExampleTable}

len(t) == t.nrows

shape(t) == <<t.nrows, Len(t.columns)>>

\* df.select_dtypes(include=[np.number]).columns
RECURSIVE select_numeric(_)
select_numeric(columns) ==
    IF columns = <<>> THEN <<>>
    ELSE LET rest == select_numeric(Tail(columns))
         IN  IF Head(columns).dtype = "float64" THEN <<Head(columns).name>> \o rest ELSE rest

\* missing / len(df) * 100 on numpy values: 0/0 is nan, not an exception.
\* The quotient is kept exact as <<numerator, denominator>>.
percent(missing, n) == IF n = 0 THEN <<"nan">> ELSE <<"ratio", missing * 100, n>>

\* f"{missing_pct:.1f}": the percentage in tenths, rounded to the nearest
\* (a tie, which only an exactly representable quotient gives, to the even)
format_1f(p) ==
    IF p[1] = "nan" THEN <<"nan">>
    ELSE LET q == (p[2] * 10) \div p[3]
             r == (p[2] * 10) % p[3]
         IN  <<"tenths", IF 2 * r < p[3] THEN q
                         ELSE IF 2 * r > p[3] THEN q + 1
                         ELSE IF q % 2 = 0 THEN q ELSE q + 1>>

----------------------------------------------------------------------------
(* Exceptions and return values *)

NoExc == [type |-> "none"]

Raised(type, at) == [type |-> type, at |-> at]

None == [kind |-> "None"]

NoFig == [kind |-> "none"]

----------------------------------------------------------------------------
(* load_data *)

\* file paths are sequences of characters, so that str.endswith is computed
csv == <<".", "c", "s", "v">>
xlsx == <<".", "x", "l", "s", "x">>
xls == <<".", "x", "l", "s">>
json == <<".", "j", "s", "o", "n">>

Stems == { <<"d", "/", "a">> }

Suffixes ==
    { csv, xlsx, xls, json,
      <<".", "C", "S", "V">>, <<".", "J", "S", "O", "N">>, <<".", "X", "l", "s">>,
      <<".", "t", "x", "t">>, <<>>, <<"c", "s", "v">>,
      <<".", "c", "s", "v", ".", "g", "z">>, <<".", "x", "l", "s", "m">>,
      <<".", "j", "s", "o", "n", "l">> }

\* "d/a" followed by each suffix, and the bare names ".csv" and ""
Paths == { stem \o suffix : stem \in Stems, suffix \in Suffixes } \cup {csv, <<>>}

\* the keyword arguments of a call
Kwargs == { <<>>, <<[key |-> "encoding", value |-> "utf-8"], [key |-> "header", value |-> 0]>> }

\* endswith with the case of the path ignored
endswith_ignorecase(s, suffix) ==
    LET lower(c) == CASE c = "C" -> "c" [] c = "S" -> "s" [] c = "V" -> "v"
                      [] c = "J" -> "j" [] c = "O" -> "o" [] c = "N" -> "n"
                      [] c = "X" -> "x" [] c = "L" -> "l" [] OTHER -> c
    IN  /\ Len(s) >= Len(suffix)
        /\ \A i \in 1..Len(suffix) : lower(s[Len(s) - Len(suffix) + i]) = suffix[i]

\* str.endswith(suffix): exact, case-sensitive comparison of the tail
endswith(s, suffix) ==
    /\ Len(s) >= Len(suffix)
    /\ SubSeq(s, Len(s) - Len(suffix) + 1, Len(s)) = suffix

\* what a pandas reader does with the file: it builds a table, or it raises
\* (no such file, unreadable contents)
Parsed(t) == [ok |-> TRUE, value |-> t]

Unreadable == [ok |-> FALSE, value |-> None]

\* one pandas reader call and its outcome
read(parser, file_path, kwargs, outcome) ==
    [parser |-> parser, file_path |-> file_path, kwargs |-> kwargs, result |-> outcome]

\* return pd.read_x(file_path, **kwargs): the reader's table is returned,
\* the reader's exception propagates
return_read(parser, file_path, kwargs, outcome) ==
    [calls |-> <<read(parser, file_path, kwargs, outcome)>>,
     ret |-> outcome.value,
     exc |-> IF outcome.ok THEN NoExc ELSE Raised("FileNotFoundError", parser)]

\* load_data with the keyword arguments left out of the reader call
load_data_drops_kwargs(file_path, kwargs, outcome) ==
    IF endswith(file_path, csv) THEN
        return_read("read_csv", file_path, <<>>, outcome)
    ELSE IF endswith(file_path, xlsx) \/ endswith(file_path, xls) THEN
        return_read("read_excel", file_path, <<>>, outcome)
    ELSE IF endswith(file_path, json) THEN
        return_read("read_json", file_path, <<>>, outcome)
    ELSE
        [calls |-> <<>>, ret |-> None,
         exc |-> [type |-> "ValueError", msg |-> <<"Unsupported file format: ", file_path>>]]

\* outcome: what the reader called would do with the file
load_data(file_path, kwargs, outcome) ==
    IF endswith(file_path, csv) THEN
        return_read("read_csv", file_path, kwargs, outcome)
    ELSE IF endswith(file_path, xlsx) \/ endswith(file_path, xls) THEN
        return_read("read_excel", file_path, kwargs, outcome)
    ELSE IF endswith(file_path, json) THEN
        return_read("read_json", file_path, kwargs, outcome)
    ELSE
        [calls |-> <<>>, ret |-> None,
         exc |-> [type |-> "ValueError", msg |-> <<"Unsupported file format: ", file_path>>]]

----------------------------------------------------------------------------
(* explore_data *)

\* df.isnull().sum(), missing / len(df) * 100, and the frame of both
missing_df(t) ==
    [i \in 1..Len(t.columns) |->
        [name |-> t.columns[i].name,
         missing |-> t.columns[i].missing,
         percent |-> percent(t.columns[i].missing, len(t))]]

\* missing_df[missing_df[count] > 0]: boolean-mask selection keeps row order
RECURSIVE filter_missing(_)
filter_missing(rows) ==
    IF rows = <<>> THEN <<>>
    ELSE IF Head(rows).missing > 0 THEN <<Head(rows)>> \o filter_missing(Tail(rows))
    ELSE filter_missing(Tail(rows))

\* df.info(): one line per column with its non-null count and dtype
info(t) ==
    [kind |-> "info",
     columns |-> [i \in 1..Len(t.columns) |->
                    [name |-> t.columns[i].name,
                     non_null |-> len(t) - t.columns[i].missing,
                     dtype |-> t.columns[i].dtype]]]

\* df.describe() raises ValueError("Cannot describe a DataFrame without
\* columns") on a frame that has no column
describe_raises(t) == Len(t.columns) = 0

\* df.describe(): count, mean, std, min, quartiles, max of the numeric
\* columns (count, unique, top, freq of the object columns when none is numeric)
describe(t) ==
    [kind |-> "describe",
     columns |-> IF select_numeric(t.columns) # <<>> THEN select_numeric(t.columns)
                 ELSE [i \in 1..Len(t.columns) |-> t.columns[i].name]]

shape_line(t) == [kind |-> "shape", shape |-> shape(t)]

\* the memory line; the byte count is pandas' own and is not modelled
memory_line == [kind |-> "memory"]

\* the missing-value table without the count > 0 mask
missing_block_unfiltered(t) ==
    <<[kind |-> "missing_header"], [kind |-> "missing", rows |-> missing_df(t)]>>

missing_block(t) ==
    <<[kind |-> "missing_header"], [kind |-> "missing", rows |-> filter_missing(missing_df(t))]>>

\* explore_data with the info block printed whatever show_info is
explore_data_ignores_show_info(t, show_info, show_stats) ==
    LET head == <<shape_line(t), memory_line>>
                \o <<[kind |-> "info_header"], info(t), [kind |-> "print_None"]>>
    IN  IF show_stats /\ describe_raises(t) THEN
            [stdout |-> head \o <<[kind |-> "stats_header"]>>,
             exc |-> Raised("ValueError", "describe")]
        ELSE
            [stdout |-> head
                        \o (IF show_stats THEN <<[kind |-> "stats_header"], describe(t)>> ELSE <<>>)
                        \o missing_block(t),
             exc |-> NoExc]

explore_data(t, show_info, show_stats) ==
    LET head == <<shape_line(t), memory_line>>
                \o (IF show_info
                    THEN <<[kind |-> "info_header"], info(t), [kind |-> "print_None"]>>
                    ELSE <<>>)
    IN  IF show_stats /\ describe_raises(t) THEN
            [stdout |-> head \o <<[kind |-> "stats_header"]>>,
             exc |-> Raised("ValueError", "describe")]
        ELSE
            [stdout |-> head
                        \o (IF show_stats THEN <<[kind |-> "stats_header"], describe(t)>> ELSE <<>>)
                        \o missing_block(t),
             exc |-> NoExc]

----------------------------------------------------------------------------
(* plot_distributions *)

min(a, b) == IF a <= b THEN a ELSE b

\* plt.subplots(n_rows, n_cols) with the default squeeze=True: one Axes
\* object for a 1x1 grid, a 1-D array for a single row or a single column,
\* a 2-D array otherwise
subplots(n_rows, n_cols) ==
    IF n_rows = 1 /\ n_cols = 1 THEN [kind |-> "Axes", shape |-> <<>>]
    ELSE IF n_rows = 1 THEN [kind |-> "ndarray", shape |-> <<n_cols>>]
    ELSE IF n_cols = 1 THEN [kind |-> "ndarray", shape |-> <<n_rows>>]
    ELSE [kind |-> "ndarray", shape |-> <<n_rows, n_cols>>]

\* axes[row, col_idx] is an element of a 2-D array only
in_grid(axes, cell) ==
    /\ axes.kind = "ndarray"
    /\ Len(axes.shape) = 2
    /\ cell[1] \in 0..(axes.shape[1] - 1)
    /\ cell[2] \in 0..(axes.shape[2] - 1)

\* the cell of the i-th subplot, i counted from 0
cell_of(i, n_cols) == <<i \div n_cols, i % n_cols>>

\* the figure as it stands when the call ends: the grid, the histogram
\* drawn in each cell and the cells made invisible
Figure(n_rows, n_cols, axes, hist, hidden) ==
    [kind |-> "figure", n_rows |-> n_rows, n_cols |-> n_cols, axes |-> axes,
     hist |-> hist, hidden |-> hidden]

plot_distributions(t, columns) ==
    LET cols == IF columns.kind = "None" THEN select_numeric(t.columns) ELSE columns.names
        n == Len(cols)
        n_cols == min(3, n)
    IN  IF n_cols = 0 THEN
            [fig |-> NoFig, exc |-> Raised("ZeroDivisionError", "n_rows")]
        ELSE
        LET n_rows == (n + n_cols - 1) \div n_cols
            made == subplots(n_rows, n_cols)
        IN  IF n_rows = 1 /\ made.kind = "Axes" THEN
                \* a single Axes object has no reshape
                [fig |-> Figure(n_rows, n_cols, made, <<>>, <<>>),
                 exc |-> Raised("AttributeError", "reshape")]
            ELSE
            LET axes == IF n_rows = 1
                        THEN [kind |-> "ndarray", shape |-> <<1, made.shape[1]>>]
                        ELSE made
                bad1 == { i \in 0..(n - 1) : ~in_grid(axes, cell_of(i, n_cols)) }
                stop1 == IF bad1 = {} THEN n
                         ELSE CHOOSE i \in bad1 : \A j \in bad1 : i <= j
                hist == [k \in 1..stop1 |->
                            [cell |-> cell_of(k - 1, n_cols), column |-> cols[k]]]
                extra == n_rows * n_cols - n
                bad2 == { i \in n..(n_rows * n_cols - 1) : ~in_grid(axes, cell_of(i, n_cols)) }
                stop2 == IF bad2 = {} THEN (IF extra > 0 THEN extra ELSE 0)
                         ELSE (CHOOSE i \in bad2 : \A j \in bad2 : i <= j) - n
                hidden == [k \in 1..stop2 |-> cell_of(n + k - 1, n_cols)]
            IN  IF bad1 # {} THEN
                    [fig |-> Figure(n_rows, n_cols, axes, hist, <<>>),
                     exc |-> Raised("IndexError", "axes[row, col_idx]")]
                ELSE IF bad2 # {} THEN
                    [fig |-> Figure(n_rows, n_cols, axes, hist, hidden),
                     exc |-> Raised("IndexError", "set_visible")]
                ELSE
                    [fig |-> Figure(n_rows, n_cols, axes, hist, hidden), exc |-> NoExc]

List(names) == [kind |-> "list", names |-> names]

\* the column lists a caller passes: None, or the first k numeric columns
ColumnLists(t) ==
    {None} \cup { List(SubSeq(select_numeric(t.columns), 1, k)) :
                    k \in 0..Len(select_numeric(t.columns)) }

----------------------------------------------------------------------------
(* create_summary_report *)

NoFile == [exists |-> FALSE, lines |-> <<>>]

OldFile == [exists |-> TRUE, lines |-> <<[kind |-> "old"]>>]

\* the directory of results/data_summary_report.txt
output_dir == "results"

\* open(output_file, 'a'): the contents stay
open_a(old) == [exists |-> TRUE, lines |-> old.lines]

\* open(output_file, 'w'): the file is created or truncated
open_w(old) == [exists |-> TRUE, lines |-> <<>>]

write(f, lines) == [exists |-> f.exists, lines |-> f.lines \o lines]

\* one line per column, in df.columns order
column_lines(t) ==
    [i \in 1..Len(t.columns) |->
        [kind |-> "column",
         name |-> t.columns[i].name,
         dtype |-> t.columns[i].dtype,
         missing |-> t.columns[i].missing,
         percent |-> format_1f(percent(t.columns[i].missing, len(t)))]]

\* df[numeric_cols].corr()
corr(names) == [kind |-> "corr", columns |-> names]

saved_report == [kind |-> "saved_report", path |-> "results/data_summary_report.txt"]

\* create_summary_report with the confirmation printed on every path out
create_summary_report_always_confirms(t, old, existing) ==
    IF output_dir \notin existing THEN
        [file |-> old, stdout |-> <<saved_report>>, exc |-> Raised("FileNotFoundError", "open")]
    ELSE
    LET f1 == write(open_w(old),
                    <<[kind |-> "title"], shape_line(t), memory_line,
                      [kind |-> "columns_header"]>>
                    \o column_lines(t)
                    \o <<[kind |-> "stats_header"]>>)
    IN  IF describe_raises(t) THEN
            [file |-> f1, stdout |-> <<saved_report>>, exc |-> Raised("ValueError", "describe")]
        ELSE
        LET f2 == write(f1, <<describe(t), [kind |-> "corr_header"]>>)
            numeric_cols == select_numeric(t.columns)
            f3 == IF Len(numeric_cols) > 1 THEN write(f2, <<corr(numeric_cols)>>) ELSE f2
        IN  [file |-> f3, stdout |-> <<saved_report>>, exc |-> NoExc]

\* existing: the directories that exist; old: the file as it was
create_summary_report(t, old, existing) ==
    IF output_dir \notin existing THEN
        [file |-> old, stdout |-> <<>>, exc |-> Raised("FileNotFoundError", "open")]
    ELSE
    LET f1 == write(open_w(old),
                    <<[kind |-> "title"], shape_line(t), memory_line,
                      [kind |-> "columns_header"]>>
                    \o column_lines(t)
                    \o <<[kind |-> "stats_header"]>>)
    IN  IF describe_raises(t) THEN
            \* leaving the with block closes the file: what was written stays
            [file |-> f1, stdout |-> <<>>, exc |-> Raised("ValueError", "describe")]
        ELSE
        LET f2 == write(f1, <<describe(t), [kind |-> "corr_header"]>>)
            numeric_cols == select_numeric(t.columns)
            f3 == IF Len(numeric_cols) > 1 THEN write(f2, <<corr(numeric_cols)>>) ELSE f2
        IN  [file |-> f3, stdout |-> <<saved_report>>, exc |-> NoExc]

----------------------------------------------------------------------------
(* create_sample_data *)

n_samples == 1        \* rows generated (1000 in the source)

Departments == {"sales", "development", "planning", "personnel"}

Genders == {"male", "female"}

\* what the random generator may hand out for one row: normal draws of any
\* sign, a non-negative exponential draw, a uniform draw of [1, 10)
RawRows ==
    [age : {10, 35, 80}, income : {-1000000, 14000000}, tenure : {0, 40},
     satisfaction : {1, 9}, department : Departments, gender : Genders]

RawTables == [1..n_samples -> RawRows]

AgeMin == 20
AgeMax == 65
IncomeMin == 2000000
IncomeMax == 15000000
TenureMin == 0
TenureMax == 30
SatisfactionMin == 1
SatisfactionMax == 10

\* satisfaction is kept in millionths, so that (income - 5000000) / 1000000
\* is exact in integers
Million == 1000000

\* Series.clip(lower, upper)
clip(x, lower, upper) == IF x < lower THEN lower ELSE IF x > upper THEN upper ELSE x

\* create_sample_data with the clipping done before the derived terms
create_sample_data_clips_first(raw) ==
    [i \in 1..Len(raw) |->
        LET age == clip(raw[i].age, AgeMin, AgeMax)
            tenure == clip(raw[i].tenure, TenureMin, TenureMax)
            income == clip(raw[i].income, IncomeMin, IncomeMax) + age * 50000 + tenure * 100000
            satisfaction == clip(raw[i].satisfaction * Million,
                                 SatisfactionMin * Million, SatisfactionMax * Million)
                            + (income - 5000000)
        IN  [age |-> age, income |-> income, tenure |-> tenure, satisfaction |-> satisfaction,
             department |-> raw[i].department, gender |-> raw[i].gender]]

\* raw: the drawn rows.  The derived terms use the unclipped draws.
create_sample_data(raw) ==
    [i \in 1..Len(raw) |->
        LET income == raw[i].income + raw[i].age * 50000 + raw[i].tenure * 100000
            satisfaction == raw[i].satisfaction * Million + (income - 5000000)
        IN  [age |-> clip(raw[i].age, AgeMin, AgeMax),
             income |-> clip(income, IncomeMin, IncomeMax),
             tenure |-> clip(raw[i].tenure, TenureMin, TenureMax),
             satisfaction |-> clip(satisfaction, SatisfactionMin * Million,
                                   SatisfactionMax * Million),
             department |-> raw[i].department,
             gender |-> raw[i].gender]]

\* pd.DataFrame(data): six columns in insertion order, no nulls
Frame(rows) ==
    [nrows |-> Len(rows),
     columns |-> <<[name |-> "age", dtype |-> "float64", missing |-> 0],
                   [name |-> "income", dtype |-> "float64", missing |-> 0],
                   [name |-> "tenure", dtype |-> "float64", missing |-> 0],
                   [name |-> "satisfaction", dtype |-> "float64", missing |-> 0],
                   [name |-> "department", dtype |-> "object", missing |-> 0],
                   [name |-> "gender", dtype |-> "object", missing |-> 0]>>,
     origin |-> "create_sample_data"]

----------------------------------------------------------------------------
(* The calls of utils.py, one call per behaviour (create_summary_report   *)
(* may be called again on the file it left).  The functions keep no state *)
(* between calls other than the report file.                              *)

Idle ==
    /\ op = "none"
    /\ args = None
    /\ stdout = <<>>
    /\ exc = NoExc
    /\ ret = None
    /\ parserCalls = <<>>
    /\ fig = NoFig
    /\ data = <<>>
    /\ trace = <<>>

Init ==
    /\ Idle
    /\ pc = "idle"
    /\ df \in Tables
    /\ dirs \in {{"data", "results"}, {"data"}}
    /\ file \in (IF output_dir \in dirs THEN {NoFile, OldFile} ELSE {NoFile})

Load(file_path, kwargs, outcome) ==
    LET r == load_data(file_path, kwargs, outcome)
    IN  /\ pc = "idle" /\ op = "none"
        /\ op' = "load_data"
        /\ args' = [file_path |-> file_path, kwargs |-> kwargs]
        /\ parserCalls' = r.calls
        /\ ret' = r.ret
        /\ exc' = r.exc
        /\ UNCHANGED <<df, file, dirs, stdout, fig, pc, data, trace>>

Explore(show_info, show_stats) ==
    LET r == explore_data(df, show_info, show_stats)
    IN  /\ pc = "idle" /\ op = "none"
        /\ op' = "explore_data"
        /\ args' = [show_info |-> show_info, show_stats |-> show_stats]
        /\ stdout' = r.stdout
        /\ exc' = r.exc
        /\ UNCHANGED <<df, file, dirs, ret, parserCalls, fig, pc, data, trace>>

Plot(columns) ==
    LET r == plot_distributions(df, columns)
    IN  /\ pc = "idle" /\ op = "none"
        /\ op' = "plot_distributions"
        /\ args' = [columns |-> columns]
        /\ fig' = r.fig
        /\ exc' = r.exc
        /\ UNCHANGED <<df, file, dirs, stdout, ret, parserCalls, pc, data, trace>>

Report ==
    LET r == create_summary_report(df, file, dirs)
    IN  /\ pc = "idle" /\ op \in {"none", "create_summary_report"}
        /\ op' = "create_summary_report"
        /\ args' = [output_file |-> "results/data_summary_report.txt", before |-> file]
        /\ file' = r.file
        /\ stdout' = r.stdout
        /\ exc' = r.exc
        /\ UNCHANGED <<df, dirs, ret, parserCalls, fig, pc, data, trace>>

Next ==
    \/ \E file_path \in Paths, kwargs \in Kwargs, outcome \in {Parsed(df), Unreadable} :
            Load(file_path, kwargs, outcome)
    \/ \E show_info \in BOOLEAN, show_stats \in BOOLEAN : Explore(show_info, show_stats)
    \/ \E columns \in ColumnLists(df) : Plot(columns)
    \/ Report

Spec == Init /\ [][Next]_vars

----------------------------------------------------------------------------
(* create_sample_data called on every draw *)

InitGen ==
    /\ Idle
    /\ pc = "generate"
    /\ df = None
    /\ dirs = {"data", "results"}
    /\ file = NoFile

Generate ==
    /\ pc = "generate" /\ op = "none"
    /\ \E raw \in RawTables :
        /\ args' = [raw |-> raw]
        /\ data' = create_sample_data(raw)
    /\ op' = "create_sample_data"
    /\ df' = Frame(data')
    /\ ret' = df'
    /\ UNCHANGED <<file, dirs, stdout, exc, parserCalls, fig, pc, trace>>

NextGen == Generate

SpecGen == InitGen /\ [][NextGen]_vars

----------------------------------------------------------------------------
(* main() of example_analysis.py, statement by statement *)

\* The seed is fixed, so one run draws one table; which one is numpy's
\* affair.  main is run on rows covering the low, middle and high draws.
MainRows ==
    { r \in RawRows : /\ r.gender = "male"
                      /\ r.department \in {"sales", "development"}
                      /\ r.tenure = (IF r.age = 80 THEN 40 ELSE 0) }

MainDraws == { [i \in 1..n_samples |-> r] : r \in MainRows }

\* save_plot(filename): plt.savefig needs the directory of the file
savefig_raises(existing) == "results" \notin existing

\* one entry of the trace: the function called and where the table it was
\* given came from
Called(stage, function, table) == [stage |-> stage, function |-> function, table |-> table]

\* main with the report written before the exploration
after_report_first(statement) ==
    CASE statement = "create_sample_data" -> "to_csv"
      [] statement = "to_csv" -> "create_summary_report"
      [] statement = "create_summary_report" -> "explore_data"
      [] statement = "explore_data" -> "plot_correlation_matrix"
      [] statement = "plot_correlation_matrix" -> "plot_distributions"
      [] statement = "plot_distributions" -> "department_analysis"
      [] statement = "department_analysis" -> "gender_analysis"
      [] statement = "gender_analysis" -> "done"

\* the statement that follows each statement of main
after(statement) ==
    CASE statement = "create_sample_data" -> "to_csv"
      [] statement = "to_csv" -> "explore_data"
      [] statement = "explore_data" -> "plot_correlation_matrix"
      [] statement = "plot_correlation_matrix" -> "plot_distributions"
      [] statement = "plot_distributions" -> "department_analysis"
      [] statement = "department_analysis" -> "gender_analysis"
      [] statement = "gender_analysis" -> "create_summary_report"
      [] statement = "create_summary_report" -> "done"

\* an exception leaves main: nothing catches it
leave(statement, e) == IF e = NoExc THEN after(statement) ELSE "raised"

InitMain ==
    /\ Idle
    /\ pc = "create_sample_data"
    /\ df = None
    /\ dirs \in SUBSET {"data", "results"}
    /\ file \in (IF output_dir \in dirs THEN {NoFile, OldFile} ELSE {NoFile})

\* df = create_sample_data()
MainCreateSampleData ==
    /\ pc = "create_sample_data"
    /\ \E raw \in MainDraws :
        /\ data' = create_sample_data(raw)
        /\ args' = [raw |-> raw]
    /\ df' = Frame(data')
    /\ op' = "create_sample_data"
    /\ trace' = Append(trace, Called("Generator", "create_sample_data", "none"))
    /\ pc' = after(pc)
    /\ UNCHANGED <<file, dirs, stdout, exc, ret, parserCalls, fig>>

\* df.to_csv('data/sample_data.csv', index=False, encoding='utf-8')
MainToCsv ==
    LET e == IF "data" \in dirs THEN NoExc ELSE Raised("OSError", "to_csv")
    IN  /\ pc = "to_csv"
        /\ op' = "to_csv"
        /\ exc' = e
        /\ stdout' = IF e = NoExc THEN <<[kind |-> "saved_data"]>> ELSE <<>>
        /\ trace' = Append(trace, Called("Persist", "to_csv", df.origin))
        /\ pc' = leave(pc, e)
        /\ UNCHANGED <<df, file, dirs, args, ret, parserCalls, fig, data>>

\* explore_data(df)
MainExploreData ==
    LET r == explore_data(df, TRUE, TRUE)
    IN  /\ pc = "explore_data"
        /\ op' = "explore_data"
        /\ stdout' = r.stdout
        /\ exc' = r.exc
        /\ trace' = Append(trace, Called("Explorer", "explore_data", df.origin))
        /\ pc' = leave(pc, r.exc)
        /\ UNCHANGED <<df, file, dirs, args, ret, parserCalls, fig, data>>

\* plot_correlation_matrix(df.select_dtypes(include=[np.number]));
\* save_plot('results/correlation_matrix.png')
MainPlotCorrelationMatrix ==
    LET e == IF savefig_raises(dirs) THEN Raised("FileNotFoundError", "savefig") ELSE NoExc
    IN  /\ pc = "plot_correlation_matrix"
        /\ op' = "plot_correlation_matrix"
        /\ fig' = [kind |-> "heatmap", columns |-> select_numeric(df.columns)]
        /\ exc' = e
        /\ stdout' = IF e = NoExc THEN <<[kind |-> "saved_plot"]>> ELSE <<>>
        /\ trace' = Append(trace, Called("Visualizer", "plot_correlation_matrix", df.origin))
        /\ pc' = leave(pc, e)
        /\ UNCHANGED <<df, file, dirs, args, ret, parserCalls, data>>

\* plot_distributions(df, columns=[age, income, tenure, satisfaction]);
\* save_plot('results/distributions.png')
MainPlotDistributions ==
    LET r == plot_distributions(df, List(<<"age", "income", "tenure", "satisfaction">>))
        e == IF r.exc # NoExc THEN r.exc
             ELSE IF savefig_raises(dirs) THEN Raised("FileNotFoundError", "savefig")
             ELSE NoExc
    IN  /\ pc = "plot_distributions"
        /\ op' = "plot_distributions"
        /\ fig' = r.fig
        /\ exc' = e
        /\ stdout' = IF e = NoExc THEN <<[kind |-> "saved_plot"]>> ELSE <<>>
        /\ trace' = Append(trace, Called("Visualizer", "plot_distributions", df.origin))
        /\ pc' = leave(pc, e)
        /\ UNCHANGED <<df, file, dirs, args, ret, parserCalls, data>>

\* df.groupby(department).agg(...), three df.boxplot(..., by=department),
\* save_plot('results/department_analysis.png')
MainDepartmentAnalysis ==
    LET e == IF savefig_raises(dirs) THEN Raised("FileNotFoundError", "savefig") ELSE NoExc
    IN  /\ pc = "department_analysis"
        /\ op' = "department_analysis"
        /\ fig' = [kind |-> "boxplots", columns |-> <<"income", "satisfaction", "age">>]
        /\ exc' = e
        /\ stdout' = <<[kind |-> "department_statistics"]>>
                     \o (IF e = NoExc THEN <<[kind |-> "saved_plot"]>> ELSE <<>>)
        /\ trace' = Append(trace, Called("Visualizer", "boxplot", df.origin))
        /\ pc' = leave(pc, e)
        /\ UNCHANGED <<df, file, dirs, args, ret, parserCalls, data>>

\* df.groupby(gender).agg(...) and its print
MainGenderAnalysis ==
    /\ pc = "gender_analysis"
    /\ op' = "gender_analysis"
    /\ stdout' = <<[kind |-> "gender_statistics"]>>
    /\ pc' = after(pc)
    /\ UNCHANGED <<df, file, dirs, args, exc, ret, parserCalls, fig, data, trace>>

\* create_summary_report(df, 'results/data_summary_report.txt')
MainCreateSummaryReport ==
    LET r == create_summary_report(df, file, dirs)
    IN  /\ pc = "create_summary_report"
        /\ op' = "create_summary_report"
        /\ file' = r.file
        /\ stdout' = r.stdout
        /\ exc' = r.exc
        /\ trace' = Append(trace, Called("ReportBuilder", "create_summary_report", df.origin))
        /\ pc' = leave(pc, r.exc)
        /\ UNCHANGED <<df, dirs, args, ret, parserCalls, fig, data>>

NextMain ==
    \/ MainCreateSampleData
    \/ MainToCsv
    \/ MainExploreData
    \/ MainPlotCorrelationMatrix
    \/ MainPlotDistributions
    \/ MainDepartmentAnalysis
    \/ MainGenderAnalysis
    \/ MainCreateSummaryReport

SpecMain == InitMain /\ [][NextMain]_vars

----------------------------------------------------------------------------
(* The claims *)

\* the characters of path from position Len(path) - k + 1 on
LastChars(path, k) == IF Len(path) < k THEN <<"short">> ELSE SubSeq(path, Len(path) - k + 1, Len(path))

IsCsv(path) == LastChars(path, 4) = <<".", "c", "s", "v">>

IsExcel(path) ==
    \/ LastChars(path, 5) = <<".", "x", "l", "s", "x">>
    \/ LastChars(path, 4) = <<".", "x", "l", "s">>

IsJson(path) == LastChars(path, 5) = <<".", "j", "s", "o", "n">>

Has(lines, kind) == \E i \in 1..Len(lines) : lines[i].kind = kind

NumericCount(t) == Cardinality({ i \in 1..Len(t.columns) : t.columns[i].dtype = "float64" })

IsPrefix(s, t) == Len(s) <= Len(t) /\ s = SubSeq(t, 1, Len(s))

\* C1: a path that ends in none of .csv, .xlsx, .xls, .json (compared
\* case-sensitively, so .CSV and an extensionless path are such paths) makes
\* load_data raise the unsupported-format error (ValueError), whose message
\* carries the path, without calling any pandas reader.
C1_UnsupportedRaises ==
    (op = "load_data"
        /\ ~IsCsv(args.file_path) /\ ~IsExcel(args.file_path) /\ ~IsJson(args.file_path))
    => /\ exc.type = "ValueError"
       /\ exc.msg = <<"Unsupported file format: ", args.file_path>>
       /\ parserCalls = <<>>
       /\ ret = None

C1_Witness ==
    /\ op = "load_data"
    /\ args.file_path = <<"d", "/", "a", ".", "C", "S", "V">>
    /\ exc.type = "ValueError"
    /\ parserCalls = <<>>

C3_NoCorrelationSection ==
    (op = "create_summary_report" /\ exc = NoExc /\ NumericCount(df) < 2)
    => /\ ~Has(file.lines, "corr_header")
       /\ ~Has(file.lines, "corr")

\* the place of a line in the fixed order of the report
SectionRank(kind) ==
    CASE kind = "title" -> 0
      [] kind = "shape" -> 1
      [] kind = "memory" -> 2
      [] kind \in {"columns_header", "column"} -> 3
      [] kind \in {"stats_header", "describe"} -> 4
      [] kind \in {"corr_header", "corr"} -> 5
      [] OTHER -> 9

LinesOf(lines, kind) == SelectSeq(lines, LAMBDA l : l.kind = kind)

\* C4: once create_summary_report has opened its file, the file holds only
\* what this call wrote, in the order shape line, memory line, column
\* listing, statistics block, correlation block; the column listing has one
\* line per column of the table in the table's order; a call that returns
\* has written the shape line, the memory line and the statistics block
\* once each, and the correlation matrix exactly when at least two columns
\* are numeric.
C4_ReportOrder ==
    (op = "create_summary_report" /\ exc.type # "FileNotFoundError")
    => /\ file.exists
       /\ ~Has(file.lines, "old")
       /\ \A i, j \in 1..Len(file.lines) :
            i < j => /\ SectionRank(file.lines[i].kind) <= SectionRank(file.lines[j].kind)
                     /\ SectionRank(file.lines[j].kind) <= 5
       /\ Len(LinesOf(file.lines, "column")) = Len(df.columns)
       /\ \A i \in 1..Len(df.columns) :
            /\ LinesOf(file.lines, "column")[i].name = df.columns[i].name
            /\ LinesOf(file.lines, "column")[i].dtype = df.columns[i].dtype
            /\ LinesOf(file.lines, "column")[i].missing = df.columns[i].missing
       /\ exc = NoExc
            => /\ Len(LinesOf(file.lines, "shape")) = 1
               /\ LinesOf(file.lines, "shape")[1].shape = <<df.nrows, Len(df.columns)>>
               /\ Len(LinesOf(file.lines, "memory")) = 1
               /\ Len(LinesOf(file.lines, "describe")) = 1
               /\ Len(LinesOf(file.lines, "corr")) = (IF NumericCount(df) >= 2 THEN 1 ELSE 0)

C4_Witness ==
    /\ op = "create_summary_report"
    /\ exc = NoExc
    /\ args.before = OldFile
    /\ Len(df.columns) = 3
    /\ NumericCount(df) = 2
    /\ Has(file.lines, "corr")

InfoPrinted == Has(stdout, "info")

StatsPrinted == Has(stdout, "describe")

AlwaysPrinted == Has(stdout, "shape") /\ Has(stdout, "memory") /\ Has(stdout, "missing")

\* C5 as stated: for every table and both flags, explore_data prints the
\* statistics block iff show_stats, the per-column info block iff show_info,
\* and the shape line, the memory line and the missing-value table always.
C5_FlagsForEveryTable ==
    op = "explore_data"
    => /\ StatsPrinted <=> args.show_stats
       /\ InfoPrinted <=> args.show_info
       /\ AlwaysPrinted

\* C5, amended: the same for every table that has at least one column, and
\* for a table without columns when show_stats is false; on a table without
\* columns and show_stats true, explore_data raises ValueError after the
\* statistics header, having printed neither the statistics block nor the
\* missing-value table (the info block still iff show_info).
C5_FlagsForTablesWithColumns ==
    op = "explore_data"
    => /\ InfoPrinted <=> args.show_info
       /\ Has(stdout, "shape") /\ Has(stdout, "memory")
       /\ (Len(df.columns) >= 1 \/ ~args.show_stats)
            => /\ exc = NoExc
               /\ StatsPrinted <=> args.show_stats
               /\ AlwaysPrinted
       /\ (Len(df.columns) = 0 /\ args.show_stats)
            => /\ exc.type = "ValueError"
               /\ ~StatsPrinted
               /\ ~Has(stdout, "missing")

C5_Witness ==
    /\ op = "explore_data"
    /\ Len(df.columns) >= 1
    /\ args.show_stats /\ ~args.show_info
    /\ StatsPrinted /\ ~InfoPrinted /\ AlwaysPrinted

\* the rows of the missing-value table that explore_data printed
MissingRows == LinesOf(stdout, "missing")[1].rows

\* C6: the missing-value table that explore_data prints has one row for
\* each column with a nonzero null count and no other row, in column order,
\* each with the column's null count and the percentage count / rows * 100;
\* for the ten-row table with null counts (0, 2, 0) it is one row, 20.0.
C6_MissingTable ==
    (op = "explore_data" /\ exc = NoExc)
    => /\ Len(LinesOf(stdout, "missing")) = 1
       /\ \A k \in 1..Len(MissingRows) :
            \E i \in 1..Len(df.columns) :
                /\ df.columns[i].name = MissingRows[k].name
                /\ df.columns[i].missing = MissingRows[k].missing
                /\ df.columns[i].missing > 0
                /\ MissingRows[k].percent = <<"ratio", df.columns[i].missing * 100, df.nrows>>
       /\ \A i \in 1..Len(df.columns) :
            df.columns[i].missing > 0 => \E k \in 1..Len(MissingRows) :
                                            MissingRows[k].name = df.columns[i].name
       /\ \A k, l \in 1..Len(MissingRows) :
            k < l => \E i, j \in 1..Len(df.columns) :
                        /\ i < j
                        /\ df.columns[i].name = MissingRows[k].name
                        /\ df.columns[j].name = MissingRows[l].name
       /\ df = ExampleTable
            => /\ Len(MissingRows) = 1
               /\ MissingRows[1].missing = 2
               /\ MissingRows[1].percent[2] = 20 * MissingRows[1].percent[3]

C6_Witness ==
    /\ op = "explore_data"
    /\ exc = NoExc
    /\ df = ExampleTable
    /\ Len(MissingRows) = 1
    /\ MissingRows[1].name = "c2"

\* the number of columns plot_distributions was asked to draw
Requested ==
    IF args.columns.kind = "None" THEN NumericCount(df) ELSE Len(args.columns.names)

Ceil3(n) == (n + 2) \div 3

\* C7: for every list of n >= 1 columns plot_distributions completes with
\* a grid of at most 3 cells per row and ceil(n / 3) rows; the i-th column
\* is drawn in cell (i div width, i mod width), inside the grid, distinct
\* columns in distinct cells; the rows * width - n trailing cells are
\* hidden and no cell with a histogram is.
C7_GridForEveryList ==
    (op = "plot_distributions" /\ Requested >= 1)
    => /\ exc = NoExc
       /\ fig.n_cols <= 3
       /\ fig.n_rows = Ceil3(Requested)
       /\ Len(fig.hist) = Requested
       /\ \A i \in 1..Len(fig.hist) :
            /\ fig.hist[i].cell = <<(i - 1) \div fig.n_cols, (i - 1) % fig.n_cols>>
            /\ fig.hist[i].cell[1] \in 0..(fig.n_rows - 1)
            /\ fig.hist[i].cell[2] \in 0..(fig.n_cols - 1)
       /\ \A i, j \in 1..Len(fig.hist) : i # j => fig.hist[i].cell # fig.hist[j].cell
       /\ Len(fig.hidden) = fig.n_rows * fig.n_cols - Requested
       /\ \A k \in 1..Len(fig.hidden) : \A i \in 1..Len(fig.hist) :
            fig.hidden[k] # fig.hist[i].cell

Clamp(x, lower, upper) == IF x < lower THEN lower ELSE IF x > upper THEN upper ELSE x

\* C8: every row create_sample_data returns has age in [20, 65], income in
\* [2000000, 15000000], tenure in [0, 30] and satisfaction in [1, 10]
\* whatever was drawn, and the bounded income and satisfaction are the
\* derived ones: the draw plus the age and tenure terms, and the draw plus
\* the income term.
C8_ClippedRanges ==
    op = "create_sample_data"
    => /\ Len(data) = Len(args.raw)
       /\ \A i \in 1..Len(data) :
            LET derived == args.raw[i].income + args.raw[i].age * 50000
                           + args.raw[i].tenure * 100000
            IN  /\ data[i].age >= 20 /\ data[i].age <= 65
                /\ data[i].income >= 2000000 /\ data[i].income <= 15000000
                /\ data[i].tenure >= 0 /\ data[i].tenure <= 30
                /\ data[i].satisfaction >= 1 * 1000000
                /\ data[i].satisfaction <= 10 * 1000000
                /\ data[i].income = Clamp(derived, 2000000, 15000000)
                /\ data[i].satisfaction =
                     Clamp(args.raw[i].satisfaction * 1000000 + (derived - 5000000),
                           1000000, 10000000)

C8_Witness ==
    /\ op = "create_sample_data"
    /\ pc = "generate"
    /\ args.raw[1].income = 14000000
    /\ args.raw[1].age = 35
    /\ data[1].income = 15000000
    /\ data[1].satisfaction = 10000000

Stages == [i \in 1..Len(trace) |-> trace[i].stage]

Consumers == {"Explorer", "Visualizer", "ReportBuilder"}

\* C9 as stated: the Explorer, the Visualizer and the Report Builder run
\* after the Loader has reloaded the persisted table, and work on the
\* reloaded table, not on the generated one still in memory.
C9_ReloadedThroughLoader ==
    \A k \in 1..Len(trace) :
        trace[k].stage \in Consumers
        => /\ \E j \in 1..(k - 1) : trace[j].stage = "Loader"
           /\ trace[k].table # "create_sample_data"

\* C9, amended: main runs Generator, persist (to_csv), Explorer, Visualizer
\* (correlation heatmap, histograms, boxplots), Report Builder in this
\* order; load_data is never called, and Explorer, Visualizer and Report
\* Builder all work on the generated table held in memory.
C9_PipelineOrder ==
    /\ IsPrefix(Stages, <<"Generator", "Persist", "Explorer", "Visualizer", "Visualizer",
                          "Visualizer", "ReportBuilder">>)
    /\ parserCalls = <<>>
    /\ \A k \in 1..Len(trace) :
        /\ trace[k].function # "load_data"
        /\ trace[k].stage \in Consumers => trace[k].table = "create_sample_data"
    /\ pc = "done" => Len(trace) = 7

C9_Witness ==
    /\ pc = "done"
    /\ Len(trace) = 7
    /\ trace[3].stage = "Explorer"
    /\ trace[3].table = "create_sample_data"

Confirmed == Has(stdout, "saved_report")

Complete(lines) ==
    /\ Has(lines, "shape") /\ Has(lines, "memory") /\ Has(lines, "describe")
    /\ Len(LinesOf(lines, "column")) = Len(df.columns)
    /\ Has(lines, "corr_header")

\* a report that was begun and not finished
Partial(lines) == Has(lines, "title") /\ ~Complete(lines)

\* C10 as stated: create_summary_report writes the whole report and then
\* confirms, or raises; when it raises the file holds no partly written
\* report and nothing was confirmed.
C10_AllOrNothing ==
    op = "create_summary_report"
    => \/ exc = NoExc /\ Complete(file.lines) /\ Confirmed
       \/ exc # NoExc /\ ~Partial(file.lines) /\ ~Confirmed

\* C10, amended: create_summary_report writes the whole report and then
\* confirms, or raises without confirming; when open itself raises the file
\* is as it was; when a later step raises (describe) the file holds the
\* part written up to that step, a partial report in place of the previous
\* contents.
C10_CompleteOrPartial ==
    op = "create_summary_report"
    => /\ exc = NoExc => (Complete(file.lines) /\ stdout = <<saved_report>>)
       /\ exc # NoExc => ~Confirmed
       /\ exc.type = "FileNotFoundError" => file = args.before
       /\ (exc # NoExc /\ exc.type # "FileNotFoundError")
            => /\ file.exists
               /\ Partial(file.lines)
               /\ ~Has(file.lines, "old")
               /\ file.lines[Len(file.lines)].kind = "stats_header"

C10_Witness ==
    /\ op = "create_summary_report"
    /\ exc.type = "ValueError"
    /\ args.before = OldFile
    /\ Partial(file.lines)
    /\ ~Confirmed

====
